---------------------------- MODULE Spec2Model ----------------------------
(***************************************************************************)
(* A model of axiprop's propagator engine (src/axiprop/lib.py).            *)
(*                                                                         *)
(* Two parts share this module.                                            *)
(*                                                                         *)
(*  - The stepping engine of a constructed PropagatorFFT2: step, steps,    *)
(*    initiate_stepping, stepping and get_Ez acting on the working buffers *)
(*    u_loc, u_ht, u_iht and on the stepping session.                      *)
(*  - The construction of a propagator: init_backend, init_kz, the radial  *)
(*    grids and the Cartesian grids, one constructor statement at a time.  *)
(*                                                                         *)
(* Arithmetic.  Field samples are Gaussian integers <<re, im>>.  Phases    *)
(* are counted in quarter turns: lengths and wavenumbers are integers in   *)
(* units for which dz * sqrt(kz^2 - kr^2) is a number of quarter turns,    *)
(* so exp(1j * t) is the unit i^t and multiplying by it is exact.  sqrt    *)
(* is the integer square root.  The transverse wavenumbers of the FFT2     *)
(* grid are the fftfreq bins in units of 2*pi/(N*d), the same unit for     *)
(* both axes.  The 2D DFT of an Nx x Ny grid with Nx, Ny dividing 4 has    *)
(* twiddle factors that are powers of i, so it is exact as well.           *)
(***************************************************************************)
EXTENDS Integers, Sequences, FiniteSets, TLC

(***************************************************************************)
(* Bounds of the model.                                                    *)
(***************************************************************************)
\* largest number of frequency slices of the propagators explored
MaxNkz == 2
\* largest first wavenumber kz[0] of a frequency axis given as an array
MaxKz == 2
\* largest single distance dz passed to a call (distances are signed)
MaxDz == 1
\* longest distance schedule passed to steps, longest recorded session
MaxSteps == 2
\* largest number of modes Nkz requested by a (k0, Lkz, Nkz) tuple
MaxModes == 4
\* largest number of radial nodes Nr of a constructed PropagatorSymmetric
MaxNr == 3
\* largest number of nodes Nx, Ny of a constructed PropagatorFFT2
MaxNxy == 3

(***************************************************************************)
(* Complex arithmetic on Gaussian integers.                                *)
(***************************************************************************)
CZero == <<0, 0>>

CAdd(a, b) == <<a[1] + b[1], a[2] + b[2]>>

\* z * i^k
Rot(z, k) ==
    LET r == k % 4
    IN  IF r = 0 THEN z
        ELSE IF r = 1 THEN <<0 - z[2], z[1]>>
        ELSE IF r = 2 THEN <<0 - z[1], 0 - z[2]>>
        ELSE <<z[2], 0 - z[1]>>

\* z * n for an integer n
CScale(z, n) == <<z[1] * n, z[2] * n>>

\* z / n for an integer n > 0 (exact on the multiples of n)
CDiv(z, n) == <<z[1] \div n, z[2] \div n>>

\* |z|^2
Abs2(z) == z[1] * z[1] + z[2] * z[2]

Abs(x) == IF x >= 0 THEN x ELSE -x

\* (x >= 0.) * x
ClampNeg(x) == IF x >= 0 THEN x ELSE 0

\* bcknd.sqrt on a non-negative argument
Isqrt(n) == CHOOSE r \in 0..n : r * r <= n /\ (r + 1) * (r + 1) > n

RECURSIVE SumSeq(_)
SumSeq(s) == IF s = <<>> THEN 0 ELSE s[1] + SumSeq(Tail(s))

(***************************************************************************)
(* The FFT2 geometry: PropagatorFFT2 on an Nx x Ny grid.                   *)
(***************************************************************************)
Nx == 2
Ny == 2

Grid == (0..(Nx - 1)) \X (0..(Ny - 1))

\* np.fft.fftfreq(n, d) * n * d: the bins 0, 1, ..., -2, -1
FftFreq(p, n) == IF 2 * p < n THEN p ELSE p - n

kx(p) == FftFreq(p, Nx)
ky(q) == FftFreq(q, Ny)

\* self.kr2 = kx[:,None]**2 + ky[None,:]**2
kr2(g) == kx(g[1]) * kx(g[1]) + ky(g[2]) * ky(g[2])

\* the array holding f's values, each evaluated once
Array(f) == IF f = f THEN f ELSE f

\* the grid nodes in row-major order, 0 .. Nx*Ny-1
Node(i) == <<i \div Ny, i % Ny>>

\* the sum of the first n nodes' samples of f
RECURSIVE CSum(_, _)
CSum(f, n) == IF n = 0 THEN CZero ELSE CAdd(f[Node(n - 1)], CSum(f, n - 1))

\* quarter turns of exp(-2*pi*i*(p*m/Nx + q*n/Ny))
Twiddle(g, h) == (4 \div Nx) * g[1] * h[1] + (4 \div Ny) * g[2] * h[2]

\* the forward 2D DFT of one slice
Fft2(s) ==
    Array([g \in Grid |->
        CSum([h \in Grid |-> Rot(s[h], 0 - Twiddle(g, h))], Nx * Ny)])

\* a variant of Ifft2 without the 1/(Nx*Ny) of the inverse transform
Ifft2Unnormalised(s) ==
    Array([g \in Grid |-> CSum([h \in Grid |-> Rot(s[h], Twiddle(g, h))], Nx * Ny)])

\* the inverse 2D DFT of one slice, normalised by 1/(Nx*Ny)
Ifft2(s) ==
    Array([g \in Grid |->
        CDiv(CSum([h \in Grid |-> Rot(s[h], Twiddle(g, h))], Nx * Ny), Nx * Ny)])

\* PropagatorFFT2.TST: u_ht = fft2(u_loc)
TST(loc) == Fft2(loc)

\* PropagatorFFT2.iTST: u_iht = ifft2(u_ht)
iTST(ht) == Ifft2(ht)

ZeroSlice == [g \in Grid |-> CZero]


(***************************************************************************)
(* Fields.  A field argument is a numpy array: its dtype and, per          *)
(* frequency slice, one sample per grid node.  Samples are multiples of    *)
(* FieldUnit, on which the 1/(Nx*Ny) of the inverse transform is exact.    *)
(***************************************************************************)
Dtypes == {"complex128", "complex64"}

FieldUnit == Nx * Ny * Nx * Ny

Delta(g, v) == [h \in Grid |-> IF h = g THEN v ELSE CZero]

\* slice i carries the sample FieldUnit * (1 + (i-1)j) at node g
FieldData(g, n) == [i \in 1..n |-> Delta(g, <<FieldUnit, FieldUnit * (i - 1)>>)]

\* the nodes the explored fields are concentrated on
FieldNodes == {<<0, 0>>, <<Nx - 1, Ny - 1>>}

\* the sample arrays of the explored fields of n slices
FieldDatas(n) == {FieldData(g, n) : g \in FieldNodes}

\* the fields of the propagator's dtype passed to a propagator of n slices
GoodFields(n) == [dtype : {"complex128"}, data : FieldDatas(n)]

\* a field of another dtype
BadFields(n) == {[dtype |-> "complex64", data |-> FieldData(<<0, 0>>, n)]}

Fields(n) == GoodFields(n) \cup BadFields(n)

NoField == [dtype |-> "none", data |-> <<>>]

\* an optional argument: None, or a value
None == [given |-> FALSE, val |-> <<>>]
Some(v) == [given |-> TRUE, val |-> v]

DzVals == (0 - 1)..MaxDz

RECURSIVE SeqsUpTo(_, _)
SeqsUpTo(S, n) ==
    IF n = 0 THEN {<<>>}
    ELSE LET shorter == SeqsUpTo(S, n - 1)
         IN  shorter \cup {Append(s, x) : s \in {t \in shorter : Len(t) = n - 1}, x \in S}

\* the distance schedules passed to steps
Schedules == SeqsUpTo(DzVals, MaxSteps)

\* a variant of DzOfZAxis that takes the positions for the distances
DzOfZAxisPositions(z) == z

\* steps: dz = np.r_[z_axis[0], np.diff(z_axis)]
DzOfZAxis(z) == [i \in 1..Len(z) |-> IF i = 1 THEN z[1] ELSE z[i] - z[i - 1]]

\* the z axes passed to steps: increasing positions
ZAxes == {z \in Schedules : \A i \in 1..(Len(z) - 1) : z[i] < z[i + 1]}

\* every schedule steps iterates over: those passed, those derived from a z axis
AllSchedules == Schedules \cup {DzOfZAxis(z) : z \in ZAxes}

\* the frequency axes given as arrays: bands of n consecutive wavenumbers
KzAxes == {[i \in 1..n |-> first + i - 1] : first \in 1..MaxKz, n \in 1..MaxNkz}

VARIABLES
    kz,             \* self.kz: the frequency axis (self.Nkz is its length)
    dtype,          \* self.dtype
    u_loc,          \* working buffer: one slice, physical domain
    u_ht,           \* working buffer: one slice, spectral domain
    u_iht,          \* working buffer: one slice, output domain
    stepping_set,   \* whether initiate_stepping has set the session attributes
    stepping_image, \* self.stepping_image: cached spectral field, per slice
    phase_loc,      \* self.phase_loc: cached phase rate, per slice
    z_propagation,  \* self.z_propagation
    op,             \* the last call made on the propagator
    arg,            \* its arguments
    err,            \* the exception it raised, or "none"
    ret_kind,       \* "none" (returned None), "field", "stack" or "raise"
    ret,            \* the array it returned, as a sequence of fields
    sess_u,         \* the field the open session was initiated with
    sess_dz,        \* the distances stepped since, when the session is recorded
    cls,            \* the class under construction
    ctor,           \* the arguments of its constructor
    environ,        \* os.environ: the value of AXIPROP_BACKEND, if set
    AVAILABLE_BACKENDS, \* the names registered in axiprop.backends
    pc,             \* the constructor statement to run next
    exc,            \* the exception the constructor raised, or "none"
    bknd_src,       \* which branch of init_backend bound backend_string
    obj             \* the other attributes of self set so far

buffers == <<u_loc, u_ht, u_iht>>
session == <<stepping_set, stepping_image, phase_loc, z_propagation>>
config == <<kz, dtype>>
call == <<op, arg, err, ret_kind, ret>>
history == <<sess_u, sess_dz>>
build == <<cls, ctor, environ, AVAILABLE_BACKENDS, pc, exc, bknd_src, obj>>
vars == <<config, buffers, session, call, history, build>>

Nkz == Len(kz)

(***************************************************************************)
(* The per-slice arithmetic of the stepping engine.                        *)
(***************************************************************************)
\* step: phase_loc = sqrt((phase_loc >= 0.) * phase_loc)
PhaseLocStep(k, g) == Isqrt(ClampNeg(k * k - kr2(g)))

\* a variant of IkLoc with the clamp of step in place of abs
IkLocClamped(k, g) == Isqrt(ClampNeg(k * k - kr2(g)))

\* steps: ik_loc = sqrt(abs(kz[ikz]**2 - kr2))
IkLoc(k, g) == Isqrt(Abs(k * k - kr2(g)))

\* initiate_stepping: self.phase_loc[ikz] = sqrt((phase_loc >= 0.) * phase_loc)
PhaseLocInit(k, g) == Isqrt(ClampNeg(k * k - kr2(g)))

\* u_ht *= exp(1j * d * rate), rate real
MulExp(ht, d, rate) == Array([g \in Grid |-> Rot(ht[g], d * rate[g])])

\* step, one slice: the spectral field after the phase multiplication
StepHt(s, k, d) == MulExp(TST(s), d, [g \in Grid |-> PhaseLocStep(k, g)])

\* a variant of StepsHt that multiplies every distance onto the transformed
\* input instead of onto the buffer left by the distance before
RECURSIVE StepsHtFresh(_, _, _, _)
StepsHtFresh(ht, k, dzs, i) ==
    IF i > Len(dzs) THEN <<>>
    ELSE <<MulExp(ht, dzs[i], [g \in Grid |-> IkLoc(k, g)])>>
             \o StepsHtFresh(ht, k, dzs, i + 1)

\* steps, one slice: the spectral buffer after each distance of dzs from the
\* i-th on, every distance multiplied onto the buffer ht left by the one before
RECURSIVE StepsHt(_, _, _, _)
StepsHt(ht, k, dzs, i) ==
    IF i > Len(dzs) THEN <<>>
    ELSE LET nxt == MulExp(ht, dzs[i], [g \in Grid |-> IkLoc(k, g)])
         IN  <<nxt>> \o StepsHt(nxt, k, dzs, i + 1)

\* steps: per slice, the spectral buffer after each distance
StepsSpectral(u, axis, dzs) ==
    Array([ikz \in 1..Len(axis) |-> StepsHt(TST(u[ikz]), axis[ikz], dzs, 1)])

\* steps: u_steps[i_step, ikz] = iTST of the spectral buffer after step i_step
StepsStack(hts, n) ==
    Array([i \in 1..n |-> Array([ikz \in 1..Len(hts) |-> iTST(hts[ikz][i])])])

\* steps: the array returned for the schedule dzs
StepsOut(u, axis, dzs) == StepsStack(StepsSpectral(u, axis, dzs), Len(dzs))

\* stepping: self.stepping_image[ikz] *= exp(1j * dz * self.phase_loc[ikz])
SteppingImageNext(img, d, ph) == MulExp(img, d, ph)

\* a variant of ZPropagationNext that assigns instead of adding
ZPropagationAssign(z, d) == d

\* stepping: self.z_propagation += dz
ZPropagationNext(z, d) == z + d

\* get_Ez: kz_loc = sqrt(abs(kz[ikz]**2 - kr2))
KzLoc(k, g) == Isqrt(Abs(k * k - kr2(g)))

\* get_Ez: u_ht *= - kx_2d / kz_loc
EzHt(s, k) ==
    LET ht == TST(s)
    IN  Array([g \in Grid |-> CDiv(CScale(ht[g], 0 - kx(g[1])), KzLoc(k, g))])

\* step: per slice, the spectral buffer after the phase multiplication and
\* the slice written to u_step
StepCall(axis, u, d) ==
    LET ht == Array([ikz \in 1..Len(axis) |-> StepHt(u[ikz], axis[ikz], d)])
    IN  [ht |-> ht, out |-> Array([ikz \in 1..Len(axis) |-> iTST(ht[ikz])])]

\* steps: per slice, the spectral buffer after each distance, and u_steps
StepsCall(axis, u, dzs) ==
    LET hts == StepsSpectral(u, axis, dzs)
    IN  [ht |-> hts, out |-> StepsStack(hts, Len(dzs))]

\* initiate_stepping: stepping_image and phase_loc
InitiateCall(axis, u) ==
    [image |-> Array([ikz \in 1..Len(axis) |-> TST(u[ikz])]),
     phase |-> Array([ikz \in 1..Len(axis) |->
                        Array([g \in Grid |-> PhaseLocInit(axis[ikz], g)])])]

\* get_Ez divides by kz_loc: the quotient is finite on the axes where no
\* spectral sample has kz[ikz]**2 = kr2
EzFinite(axis) == \A ikz \in 1..Len(axis) : \A g \in Grid : KzLoc(axis[ikz], g) # 0

\* get_Ez: per slice, the spectral buffer and the slice written to uz
EzCall(axis, u) ==
    LET ht == Array([ikz \in 1..Len(axis) |-> EzHt(u[ikz], axis[ikz])])
    IN  IF EzFinite(axis)
        THEN [ht |-> ht, out |-> Array([ikz \in 1..Len(axis) |-> iTST(ht[ikz])])]
        ELSE [ht |-> <<>>, out |-> <<>>]

\* The four results above depend on the axis and the arguments alone: they are
\* tabulated once for the axes, fields and distances explored.
StepTable ==
    Array([axis \in KzAxes |-> Array([u \in FieldDatas(Len(axis)) |->
        Array([d \in DzVals |-> StepCall(axis, u, d)])])])

StepsTable ==
    Array([axis \in KzAxes |-> Array([u \in FieldDatas(Len(axis)) |->
        Array([dzs \in AllSchedules |-> StepsCall(axis, u, dzs)])])])

InitiateTable ==
    Array([axis \in KzAxes |-> Array([u \in FieldDatas(Len(axis)) |->
        InitiateCall(axis, u)])])

EzTable ==
    Array([axis \in KzAxes |-> Array([u \in FieldDatas(Len(axis)) |->
        EzCall(axis, u)])])

(***************************************************************************)
(* The calls.  Each action is one whole call on the propagator.            *)
(***************************************************************************)
Raise(name, a, e) ==
    /\ op' = name
    /\ arg' = a
    /\ err' = e
    /\ ret_kind' = "raise"
    /\ ret' = <<>>

Return(name, a, kind, value) ==
    /\ op' = name
    /\ arg' = a
    /\ err' = "none"
    /\ ret_kind' = kind
    /\ ret' = value

\* assert u.dtype == self.dtype
DtypeOk(u) == u.dtype = dtype

\* a variant of Step for a stepping that kept self.u_ht bound to the last
\* slice of stepping_image (no copy): the transform of step lands in the session
StepOnSessionImage(u, d) ==
    LET a == [u |-> u, dz |-> Some(<<d>>), z_axis |-> None]
        ht == StepTable[kz][u.data][d].ht
        u_step == StepTable[kz][u.data][d].out
    IN  IF ~DtypeOk(u)
        THEN /\ Raise("step", a, "AssertionError")
             /\ UNCHANGED <<config, buffers, session, history, build>>
        ELSE /\ u_loc' = u.data[Nkz]
             /\ u_ht' = ht[Nkz]
             /\ u_iht' = u_step[Nkz]
             /\ stepping_image' = IF stepping_set
                                  THEN [stepping_image EXCEPT ![Nkz] = ht[Nkz]]
                                  ELSE stepping_image
             /\ Return("step", a, "field", <<u_step>>)
             /\ UNCHANGED <<config, stepping_set, phase_loc, z_propagation,
                            history, build>>

\* step(u, dz)
Step(u, d) ==
    LET a == [u |-> u, dz |-> Some(<<d>>), z_axis |-> None]
        ht == StepTable[kz][u.data][d].ht
        u_step == StepTable[kz][u.data][d].out
    IN  IF ~DtypeOk(u)
        THEN /\ Raise("step", a, "AssertionError")
             /\ UNCHANGED <<config, buffers, session, history, build>>
        ELSE /\ u_loc' = u.data[Nkz]
             /\ u_ht' = ht[Nkz]
             /\ u_iht' = u_step[Nkz]
             /\ Return("step", a, "field", <<u_step>>)
             /\ UNCHANGED <<config, session, history, build>>

\* step(v, dz) on the field v that a step of a caller's field has returned
StepAgain(d) ==
    LET v == [dtype |-> arg.u.dtype, data |-> ret[1]]
        a == [u |-> v, dz |-> Some(<<d>>), z_axis |-> None]
        res == StepCall(kz, v.data, d)
    IN  /\ op = "step"
        /\ err = "none"
        /\ arg.u \in Fields(Nkz)
        /\ u_loc' = v.data[Nkz]
        /\ u_ht' = res.ht[Nkz]
        /\ u_iht' = res.out[Nkz]
        /\ Return("step", a, "field", <<res.out>>)
        /\ UNCHANGED <<config, session, history, build>>

\* steps(u, dz, z_axis)
Steps(u, dzarg, zarg) ==
    LET a == [u |-> u, dz |-> dzarg, z_axis |-> zarg]
        dzs == IF zarg.given THEN DzOfZAxis(zarg.val) ELSE dzarg.val
        Nsteps == Len(dzs)
        hts == StepsTable[kz][u.data][dzs].ht
        u_steps == StepsTable[kz][u.data][dzs].out
    IN  IF ~DtypeOk(u)
        THEN /\ Raise("steps", a, "AssertionError")
             /\ UNCHANGED <<config, buffers, session, history, build>>
        ELSE IF zarg.given /\ zarg.val = <<>>
        THEN \* z_axis[0] of an empty axis
             /\ Raise("steps", a, "IndexError")
             /\ UNCHANGED <<config, buffers, session, history, build>>
        ELSE IF ~zarg.given /\ ~dzarg.given
        THEN \* len(None)
             /\ Raise("steps", a, "TypeError")
             /\ UNCHANGED <<config, buffers, session, history, build>>
        ELSE IF Nsteps = 0
        THEN /\ Return("steps", a, "none", <<>>)
             /\ UNCHANGED <<config, buffers, session, history, build>>
        ELSE /\ u_loc' = u.data[Nkz]
             /\ u_ht' = hts[Nkz][Nsteps]
             /\ u_iht' = u_steps[Nsteps][Nkz]
             /\ Return("steps", a, "stack", u_steps)
             /\ UNCHANGED <<config, session, history, build>>

\* initiate_stepping(u)
InitiateStepping(u) ==
    LET a == [u |-> u, dz |-> None, z_axis |-> None]
        image == InitiateTable[kz][u.data].image
    IN  IF ~DtypeOk(u)
        THEN /\ Raise("initiate_stepping", a, "AssertionError")
             /\ UNCHANGED <<config, buffers, session, history, build>>
        ELSE /\ stepping_set' = TRUE
             /\ stepping_image' = image
             /\ phase_loc' = InitiateTable[kz][u.data].phase
             /\ z_propagation' = 0
             /\ u_loc' = u.data[Nkz]
             /\ u_ht' = image[Nkz]
             /\ sess_u' = u
             /\ sess_dz' = <<>>
             /\ Return("initiate_stepping", a, "none", <<>>)
             /\ UNCHANGED <<config, u_iht, build>>

\* stepping(dz), without the record of the session's distances
SteppingCall(d) ==
    LET a == [u |-> NoField, dz |-> Some(<<d>>), z_axis |-> None]
        image == Array([ikz \in 1..Nkz |->
                    SteppingImageNext(stepping_image[ikz], d, phase_loc[ikz])])
        u_out == Array([ikz \in 1..Nkz |-> iTST(image[ikz])])
    IN  IF ~stepping_set
        THEN \* self.stepping_image does not exist yet
             /\ Raise("stepping", a, "AttributeError")
             /\ UNCHANGED <<config, buffers, session, build>>
        ELSE /\ stepping_image' = image
             /\ u_ht' = image[Nkz]
             /\ u_iht' = u_out[Nkz]
             /\ z_propagation' = ZPropagationNext(z_propagation, d)
             /\ Return("stepping", a, "field", <<u_out>>)
             /\ UNCHANGED <<config, u_loc, stepping_set, phase_loc, build>>

\* get_Ez(ux), on the axes where its quotients are finite (an infinite or
\* undefined sample has no Gaussian integer to stand for it)
GetEz(ux) ==
    LET a == [u |-> ux, dz |-> None, z_axis |-> None]
        ht == EzTable[kz][ux.data].ht
        uz == EzTable[kz][ux.data].out
    IN  /\ EzFinite(kz)
        /\ u_loc' = ux.data[Nkz]
        /\ u_ht' = ht[Nkz]
        /\ u_iht' = uz[Nkz]
        /\ Return("get_Ez", a, "field", <<uz>>)
        /\ UNCHANGED <<config, session, history, build>>

\* stepping(dz) on a propagator whose running distance is kept within ZCap
ZCap == MaxDz

Stepping(d) ==
    /\ Abs(z_propagation + d) <= ZCap
    /\ SteppingCall(d)
    /\ UNCHANGED history

\* stepping(dz) in a recorded session of at most MaxSteps distances
SteppingLogged(d) ==
    /\ Len(sess_dz) < MaxSteps
    /\ SteppingCall(d)
    /\ sess_dz' = IF stepping_set THEN Append(sess_dz, d) ELSE sess_dz
    /\ UNCHANGED sess_u

(***************************************************************************)
(* Construction.  The constructor runs one statement of __init__ at a      *)
(* time; pc names the statement to run next.  Lengths and wavenumbers of   *)
(* the grids are rationals <<numerator, denominator>>; the roots of the    *)
(* Bessel functions are tabulated in thousandths.                          *)
(***************************************************************************)
Classes == {"PropagatorSymmetric", "PropagatorFFT2"}

\* the names a backend may be registered or asked for under
BackendNames == {"CU", "NP", "XX"}

\* axiprop.backends.backend_strings_ordered
backend_strings_ordered == <<"CU", "NP">>

RECURSIVE FirstRegistered(_)
\* for bknd_str in backend_strings_ordered: if registered, bind it and break
FirstRegistered(i) ==
    IF i > Len(backend_strings_ordered) THEN None
    ELSE IF backend_strings_ordered[i] \in AVAILABLE_BACKENDS
         THEN Some(backend_strings_ordered[i])
         ELSE FirstRegistered(i + 1)

\* a variant of ResolveBackend that reads the environment before the argument
ResolveBackendEnvFirst(backend) ==
    IF environ.given THEN [source |-> "environ", name |-> environ]
    ELSE IF backend.given THEN [source |-> "argument", name |-> backend]
    ELSE [source |-> "ordering", name |-> FirstRegistered(1)]

\* init_backend: the branch that binds backend_string and the name it binds,
\* None when the loop over backend_strings_ordered binds nothing
ResolveBackend(backend) ==
    IF backend.given THEN [source |-> "argument", name |-> backend]
    ELSE IF environ.given THEN [source |-> "environ", name |-> environ]
    ELSE [source |-> "ordering", name |-> FirstRegistered(1)]

RECURSIVE Factorial(_)
Factorial(n) == IF n <= 1 THEN 1 ELSE n * Factorial(n - 1)

\* the spectral widths explored: every Lkz / 2 * full_ax[i] is an integer
LkzUnit == 2 * Factorial(MaxModes)

\* int(np.ceil(Nkz/2))
CeilHalf(n) == (n + 1) \div 2

\* np.linspace(0, 1., n), as rationals
Linspace01(n) == [i \in 1..n |-> <<i - 1, IF n > 1 THEN n - 1 ELSE 1>>]

Reverse(s) == [i \in 1..Len(s) |-> s[Len(s) + 1 - i]]

\* full_ax = np.r_[-half_ax[1:][::-1], half_ax]
FullAx(n) ==
    LET half_ax == Linspace01(CeilHalf(n))
    IN  Reverse([i \in 1..(Len(half_ax) - 1) |->
                    <<0 - half_ax[i + 1][1], half_ax[i + 1][2]>>]) \o half_ax

\* init_kz: the axis self.kz built from kz_axis
KzOf(kz_axis) ==
    IF kz_axis.tuple
    THEN LET full_ax == FullAx(kz_axis.Nkz)
         IN  [i \in 1..Len(full_ax) |->
                kz_axis.k0 + (kz_axis.Lkz * full_ax[i][1]) \div (2 * full_ax[i][2])]
    ELSE kz_axis.array

\* scipy.special.jn_zeros(mode, n): the first n roots of J_mode, in thousandths
BesselZeros ==
    <<<<2405, 5520, 8654, 11792, 14931, 18071>>,
      <<3832, 7016, 10173, 13324, 16471, 19616>>>>
jn_zeros(mode, n) == SubSeq(BesselZeros[mode + 1], 1, n)

Front(s) == SubSeq(s, 1, Len(s) - 1)
Last(s) == s[Len(s)]

\* init_r_symmetric: r, Rmax, Nr
RSymmetric(r_axis, mode) ==
    LET Rmax == r_axis[1]
        alpha == jn_zeros(mode, r_axis[2] + 1)
    IN  [r |-> [i \in 1..r_axis[2] |-> <<Rmax * alpha[i], Last(alpha)>>],
         Rmax |-> <<Rmax, 1>>,
         Nr |-> r_axis[2]]

\* init_kr: alpha_np1, alpha, kr
KrOf(Rmax, Nr, mode) ==
    LET alpha == IF mode # 0 THEN <<0>> \o jn_zeros(mode, Nr)
                 ELSE jn_zeros(mode, Nr + 1)
    IN  [alpha_np1 |-> Last(alpha),
         alpha |-> Front(alpha),
         kr |-> [i \in 1..Nr |-> <<alpha[i] * Rmax[2], Rmax[1]>>]]

\* the truncated output grid, for Nr_new < Nr
Truncated(o, Nr_new) ==
    LET r_new == SubSeq(o.r, 1, Nr_new)
    IN  [Nr_new |-> Nr_new,
         r_new |-> r_new,
         Rmax_new |-> <<Last(r_new)[1] * o.alpha[Nr_new + 1],
                        Last(r_new)[2] * o.alpha[Nr_new]>>]

\* the output grid when no truncation is asked for
Untruncated(o) == [Nr_new |-> o.Nr, r_new |-> o.r, Rmax_new |-> o.Rmax]

\* np.linspace(-L/2, L/2, n), as rationals
Linspace(L, n) ==
    [i \in 1..n |-> IF n = 1 THEN <<0 - L, 2>>
                    ELSE <<(2 * (i - 1) - (n - 1)) * L, 2 * (n - 1)>>]

\* a - b for rationals
RSub(a, b) == <<a[1] * b[2] - b[1] * a[2], a[2] * b[2]>>

\* whether rationals a and b (of non-zero denominators) are the same number
REq(a, b) == a[1] * b[2] = b[1] * a[2]

\* np.fft.fftfreq(n, d) in units of 1: bin p (from 0) is FftFreq(p, n) / (d * n)
FftFreqOf(n, d) == [p \in 1..n |-> <<FftFreq(p - 1, n) * d[2], d[1] * n>>]

\* init_xykxy_fft2 reads self.x[1] and self.y[1] to get dx and dy
SpacingReadable(x_axis, y_axis) == x_axis[2] >= 2 /\ y_axis[2] >= 2

\* init_xykxy_fft2 past the reading of dx and dy; kx, ky in units of 2*pi
XykxyFft2(x_axis, y_axis) ==
    LET Lx == x_axis[1]
        Nx_ == x_axis[2]
        Ly == y_axis[1]
        Ny_ == y_axis[2]
        x0 == Linspace(Lx, Nx_)
        y0 == Linspace(Ly, Ny_)
        dx0 == RSub(x0[2], x0[1])
        dy0 == RSub(y0[2], y0[1])
        xdeg == Nx_ = 1 /\ Ny_ > 1
        dx == IF xdeg THEN dy0 ELSE dx0
        ydeg == Ny_ = 1 /\ Nx_ > 1
        dy == IF ydeg THEN dx ELSE dy0
    IN  [Lx |-> Lx, Ly |-> Ly, Nx |-> Nx_, Ny |-> Ny_,
         x |-> IF xdeg THEN <<<<0, 1>>>> ELSE x0,
         y |-> IF ydeg THEN <<<<0, 1>>>> ELSE y0,
         Nr |-> Nx_ * Ny_,
         kx |-> FftFreqOf(Nx_, dx),
         ky |-> FftFreqOf(Ny_, dy)]

\* bcknd.zeros(shape, dtype)
Zeros1(n) == [i \in 1..n |-> CZero]
Zeros2(n, m) == [g \in (0..(n - 1)) \X (0..(m - 1)) |-> CZero]

\* the attributes init_TST sets besides the buffers
TstSymmetric(o) ==
    [TM |-> <<o.Nr, o.Nr>>, shape_trns |-> <<o.Nr>>, shape_trns_new |-> <<o.Nr_new>>]
TstFft2(o) ==
    [Nr_new |-> o.Nr, shape_trns |-> <<o.Nx, o.Ny>>, shape_trns_new |-> <<o.Nx, o.Ny>>]

\* the constructor raises e: the statements after it do not run
RaiseBuild(e) ==
    /\ pc' = "raised"
    /\ exc' = e

\* the constructor goes on to statement p
Goto(p) ==
    /\ pc' = p
    /\ UNCHANGED exc

inputs == <<cls, ctor, environ, AVAILABLE_BACKENDS>>

\* self.dtype = dtype; self.mode = mode
Begin ==
    /\ pc = "start"
    /\ dtype' = ctor.dtype
    /\ obj' = IF cls = "PropagatorSymmetric" THEN [mode |-> ctor.mode] ELSE obj
    /\ Goto("init_backend")
    /\ UNCHANGED <<kz, buffers, session, call, history, inputs, bknd_src>>

\* self.init_backend(backend, verbose)
InitBackend ==
    /\ pc = "init_backend"
    /\ LET res == ResolveBackend(ctor.backend)
       IN  /\ bknd_src' = res.source
           /\ IF ~res.name.given
              THEN RaiseBuild("UnboundLocalError") /\ UNCHANGED obj
              ELSE IF res.name.val \notin AVAILABLE_BACKENDS
              THEN RaiseBuild("Exception: Backend is not available")
                      /\ UNCHANGED obj
              ELSE /\ obj' = obj @@ [bcknd |-> res.name.val]
                   /\ Goto("init_kz")
    /\ UNCHANGED <<config, buffers, session, call, history, inputs>>

\* self.init_kz(kz_axis)
InitKz ==
    /\ pc = "init_kz"
    /\ kz' = KzOf(ctor.kz_axis)
    /\ obj' = obj @@ [Nkz |-> Len(KzOf(ctor.kz_axis))]
    /\ Goto(IF cls = "PropagatorSymmetric" THEN "init_r" ELSE "init_xykxy")
    /\ UNCHANGED <<dtype, buffers, session, call, history, inputs, bknd_src>>

\* self.r, self.Rmax, self.Nr = self.init_r_symmetric(r_axis)
InitRSymmetric ==
    /\ pc = "init_r"
    /\ obj' = obj @@ RSymmetric(ctor.r_axis, obj.mode)
    /\ Goto("init_kr")
    /\ UNCHANGED <<config, buffers, session, call, history, inputs, bknd_src>>

\* self.init_kr(self.Rmax, self.Nr)
InitKr ==
    /\ pc = "init_kr"
    /\ obj' = obj @@ KrOf(obj.Rmax, obj.Nr, obj.mode)
    /\ Goto("truncate")
    /\ UNCHANGED <<config, buffers, session, call, history, inputs, bknd_src>>

\* the if / elif / else on Nr_new; the elif branch reads the unbound name sel
Truncate ==
    /\ pc = "truncate"
    /\ IF ~ctor.Nr_new.given
       THEN obj' = obj @@ Untruncated(obj) /\ Goto("init_TST")
       ELSE IF ctor.Nr_new.val >= obj.Nr
       THEN RaiseBuild("NameError") /\ UNCHANGED obj
       ELSE obj' = obj @@ Truncated(obj, ctor.Nr_new.val) /\ Goto("init_TST")
    /\ UNCHANGED <<config, buffers, session, call, history, inputs, bknd_src>>

\* self.init_xykxy_fft2(x_axis, y_axis); Lx, Ly, Nx, Ny, x and y are set
\* before dx and dy are read
InitXykxyFft2 ==
    /\ pc = "init_xykxy"
    /\ IF SpacingReadable(ctor.x_axis, ctor.y_axis)
       THEN obj' = obj @@ XykxyFft2(ctor.x_axis, ctor.y_axis) /\ Goto("init_TST")
       ELSE /\ obj' = obj @@ [Lx |-> ctor.x_axis[1], Ly |-> ctor.y_axis[1],
                              Nx |-> ctor.x_axis[2], Ny |-> ctor.y_axis[2],
                              x |-> Linspace(ctor.x_axis[1], ctor.x_axis[2]),
                              y |-> Linspace(ctor.y_axis[1], ctor.y_axis[2])]
            /\ RaiseBuild("IndexError")
    /\ UNCHANGED <<config, buffers, session, call, history, inputs, bknd_src>>

\* PropagatorSymmetric.init_TST(Nr_new)
InitTSTSymmetric ==
    /\ pc = "init_TST"
    /\ cls = "PropagatorSymmetric"
    /\ obj' = obj @@ TstSymmetric(obj)
    /\ u_loc' = Zeros1(obj.Nr)
    /\ u_ht' = Zeros1(obj.Nr)
    /\ u_iht' = Zeros1(obj.Nr_new)
    /\ Goto("done")
    /\ UNCHANGED <<config, session, call, history, inputs, bknd_src>>

\* PropagatorFFT2.init_TST()
InitTSTFft2 ==
    /\ pc = "init_TST"
    /\ cls = "PropagatorFFT2"
    /\ obj' = obj @@ TstFft2(obj)
    /\ u_loc' = Zeros2(obj.Nx, obj.Ny)
    /\ u_ht' = Zeros2(obj.Nx, obj.Ny)
    /\ u_iht' = Zeros2(obj.Nx, obj.Ny)
    /\ Goto("done")
    /\ UNCHANGED <<config, session, call, history, inputs, bknd_src>>

\* the arguments explored
OptBackends == {None} \cup {Some(b) : b \in BackendNames}
KzTuples == [tuple : {TRUE}, k0 : {LkzUnit}, Lkz : {0, LkzUnit}, Nkz : 1..MaxModes]
KzArrays == [tuple : {FALSE}, array : {a \in KzAxes : a[1] = MaxKz}]
RAxes == {1} \X (1..MaxNr)
XYAxes == {1} \X (1..MaxNxy)
CtorsSymmetric ==
    [backend : OptBackends, kz_axis : KzTuples \cup KzArrays, dtype : {"complex128"},
     r_axis : RAxes, Nr_new : {None} \cup {Some(n) : n \in 1..MaxNr}, mode : {0, 1}]
CtorsFft2 ==
    [backend : OptBackends, kz_axis : KzTuples \cup KzArrays, dtype : {"complex128"},
     x_axis : XYAxes, y_axis : XYAxes]

\* no propagator call is made during the construction
NoCall ==
    /\ stepping_set = FALSE
    /\ stepping_image = <<>>
    /\ phase_loc = <<>>
    /\ z_propagation = 0
    /\ op = "none"
    /\ arg = [u |-> NoField, dz |-> None, z_axis |-> None]
    /\ err = "none"
    /\ ret_kind = "none"
    /\ ret = <<>>
    /\ sess_u = NoField
    /\ sess_dz = <<>>

\* a constructor is called: self has no attribute yet
InitBuild ==
    /\ cls \in Classes
    /\ ctor \in IF cls = "PropagatorSymmetric" THEN CtorsSymmetric ELSE CtorsFft2
    /\ environ \in OptBackends
    /\ AVAILABLE_BACKENDS \in SUBSET BackendNames
    /\ pc = "start"
    /\ exc = "none"
    /\ bknd_src = "none"
    /\ obj = <<>>
    /\ kz = <<>>
    /\ dtype = "none"
    /\ u_loc = <<>>
    /\ u_ht = <<>>
    /\ u_iht = <<>>
    /\ NoCall

NextBuild ==
    \/ Begin
    \/ InitBackend
    \/ InitKz
    \/ InitRSymmetric
    \/ InitKr
    \/ Truncate
    \/ InitXykxyFft2
    \/ InitTSTSymmetric
    \/ InitTSTFft2

SpecBuild == InitBuild /\ [][NextBuild]_vars

(***************************************************************************)
(* The engine of one constructed PropagatorFFT2.                           *)
(***************************************************************************)
\* the arguments the engine's propagator was constructed with
EngineCtor ==
    [backend |-> None, kz_axis |-> [tuple |-> FALSE, array |-> kz],
     dtype |-> "complex128", x_axis |-> <<1, Nx>>, y_axis |-> <<1, Ny>>]

\* the construction is over: its variables keep these values in the engine
Constructed ==
    /\ cls = "PropagatorFFT2"
    /\ ctor = EngineCtor
    /\ environ = None
    /\ AVAILABLE_BACKENDS = {"NP"}
    /\ pc = "done"
    /\ exc = "none"
    /\ bknd_src = "ordering"
    /\ obj = LET grid == [bcknd |-> "NP"] @@ [Nkz |-> Len(kz)]
                            @@ XykxyFft2(<<1, Nx>>, <<1, Ny>>)
             IN  grid @@ TstFft2(grid)

\* the state after PropagatorFFT2.__init__: init_TST has zeroed the buffers,
\* no session attribute exists
Init ==
    /\ kz \in KzAxes
    /\ dtype = "complex128"
    /\ u_loc = ZeroSlice
    /\ u_ht = ZeroSlice
    /\ u_iht = ZeroSlice
    /\ NoCall
    /\ Constructed

\* the (dz, z_axis) arguments of steps: a schedule, a z axis, neither, or both
\* (a dz along with the empty z axis or with one that ends at MaxDz)
StepsArgs ==
    {<<Some(s), None>> : s \in Schedules}
        \cup {<<None, Some(z)>> : z \in ZAxes}
        \cup {<<None, None>>}
        \cup {<<Some(<<0>>), Some(z)>> :
                    z \in {y \in ZAxes : y = <<>> \/ y[Len(y)] = MaxDz}}

\* those passed along with a field of another dtype
BadStepsArgs ==
    {<<Some(<<>>), None>>, <<Some(<<1>>), None>>, <<None, Some(<<>>)>>, <<None, None>>}

Next ==
    \/ \E u \in Fields(Nkz), d \in DzVals : Step(u, d)
    \/ \E u \in GoodFields(Nkz), a \in StepsArgs : Steps(u, a[1], a[2])
    \/ \E u \in BadFields(Nkz), a \in BadStepsArgs : Steps(u, a[1], a[2])
    \/ \E u \in Fields(Nkz) : InitiateStepping(u)
    \/ \E d \in DzVals : Stepping(d)
    \/ \E ux \in Fields(Nkz) : GetEz(ux)

Spec == Init /\ [][Next]_vars

\* a recorded stepping session: initiate_stepping, then stepping calls
NextSession ==
    \/ \E u \in Fields(Nkz) : InitiateStepping(u)
    \/ \E d \in DzVals : SteppingLogged(d)

SpecSession == Init /\ [][NextSession]_vars

\* steps chained on their own results: step(step(u, dz1), dz2)
NextChain ==
    \/ \E u \in Fields(Nkz), d \in DzVals : Step(u, d)
    \/ \E d \in DzVals : StepAgain(d)

SpecChain == Init /\ [][NextChain]_vars

\* the (dz, z_axis) arguments of the steps calls made during a session
SessionStepsArgs ==
    {<<Some(<<d>>), None>> : d \in DzVals} \cup {<<None, Some(<<MaxDz>>)>>}

\* a recorded stepping session with step and steps calls in between
NextInterleaved ==
    \/ \E u \in GoodFields(Nkz) : InitiateStepping(u)
    \/ \E d \in DzVals : SteppingLogged(d)
    \/ \E u \in GoodFields(Nkz), d \in DzVals : Step(u, d)
    \/ \E u \in GoodFields(Nkz), a \in SessionStepsArgs : Steps(u, a[1], a[2])

SpecInterleaved == Init /\ [][NextInterleaved]_vars

(***************************************************************************)
(* Properties of the stepping engine.                                      *)
(***************************************************************************)
\* every spectral sample of every slice of the axis is propagating
AllPropagating(axis) ==
    \A ikz \in 1..Len(axis) : \A g \in Grid : axis[ikz] * axis[ikz] - kr2(g) >= 0

\* the spectral sample g of a slice of wavenumber k is evanescent
Evanescent(k, g) == k * k - kr2(g) < 0

\* the last call was a stepping(dz) that returned
SteppedOk == op = "stepping" /\ err = "none"

\* C1: on an axis whose spectral samples are all propagating, the k-th
\* stepping(d_k) after initiate_stepping(u) returns entry k of
\* steps(u, dz=[d_1..d_n]), slice by slice, for every k in 1..n.
C1_IncrementalEqualsBatch ==
    (SteppedOk /\ AllPropagating(kz))
        => \A dzs \in Schedules :
                (/\ Len(dzs) >= Len(sess_dz)
                 /\ SubSeq(dzs, 1, Len(sess_dz)) = sess_dz)
                    => ret[1] = StepsOut(sess_u.data, kz, dzs)[Len(sess_dz)]

\* C1 witness: the second stepping call of a session on a two-slice
\* all-propagating axis, both distances turning the phase
C1_Witness ==
    /\ SteppedOk
    /\ AllPropagating(kz)
    /\ Nkz = 2
    /\ Len(sess_dz) = 2
    /\ sess_dz[1] # 0
    /\ sess_dz[2] # 0
    /\ ret[1] # sess_u.data

\* the evanescent samples of the last slice, and that slice's spectrum before
\* the phase multiplication
LastEvanescent == {g \in Grid : Evanescent(kz[Nkz], g)}
LastSpectrum == TST(arg.u.data[Nkz])

\* the last call was a steps(u, dz=[d]) with one distance that returned its stack
SteppedOnce ==
    /\ op = "steps"
    /\ ret_kind = "stack"
    /\ ~arg.z_axis.given
    /\ Len(arg.dz.val) = 1

\* C2 as amended: for an evanescent spectral sample, step(u, dz) leaves the
\* sample unchanged (zero phase rate), and steps(u, dz=[dz]) leaves its
\* modulus unchanged too and turns its phase by dz * sqrt(kr^2 - kz[i]^2).
C2_EvanescentPhaseOnly ==
    /\ (op = "step" /\ err = "none")
            => \A g \in LastEvanescent : u_ht[g] = LastSpectrum[g]
    /\ SteppedOnce
            => \A g \in LastEvanescent :
                /\ Abs2(u_ht[g]) = Abs2(LastSpectrum[g])
                /\ u_ht[g] = Rot(LastSpectrum[g],
                                 arg.dz.val[1] * Isqrt(kr2(g) - kz[Nkz] * kz[Nkz]))

\* C2 witness: steps with one distance has turned an evanescent sample
C2_Witness ==
    /\ SteppedOnce
    /\ \E g \in LastEvanescent :
            /\ LastSpectrum[g] # CZero
            /\ u_ht[g] # LastSpectrum[g]

\* C2 as stated: for an evanescent spectral sample, step(u, dz) leaves the
\* modulus unchanged while steps(u, dz=[dz]) with the same distance modifies it.
C2_EvanescentAmplitudeModified ==
    /\ (op = "step" /\ err = "none")
            => \A g \in LastEvanescent : Abs2(u_ht[g]) = Abs2(LastSpectrum[g])
    /\ (SteppedOnce /\ arg.dz.val[1] # 0)
            => \A g \in LastEvanescent : Abs2(u_ht[g]) # Abs2(LastSpectrum[g])

\* C3: step, steps, initiate_stepping and get_Ez called with a field whose
\* dtype is not the propagator's raise at once: no buffer and no session
\* state is written, and nothing is returned.
C3_DtypeCheckedOnEveryCall ==
    [][(/\ op' \in {"step", "steps", "initiate_stepping", "get_Ez"}
        /\ arg'.u.dtype # dtype)
            => (/\ err' = "AssertionError"
                /\ ret_kind' = "raise"
                /\ UNCHANGED <<buffers, session>>)]_vars

\* the last call of steps was given an empty schedule, as dz or as z_axis
EmptySchedule(a) ==
    \/ a.z_axis.given /\ a.z_axis.val = <<>>
    \/ ~a.z_axis.given /\ a.dz.given /\ a.dz.val = <<>>

\* C4: steps called with a field of the right dtype and an empty schedule,
\* given as an empty dz or as an empty z_axis, returns None without raising
\* and without touching the working buffers.
C4_EmptyScheduleReturnsNone ==
    [][(/\ op' = "steps"
        /\ arg'.u.dtype = dtype
        /\ EmptySchedule(arg'))
            => (/\ err' = "none"
                /\ ret_kind' = "none"
                /\ UNCHANGED <<buffers, session>>)]_vars

(***************************************************************************)
(* Properties of the construction.                                         *)
(***************************************************************************)
\* init_backend has run, whether it raised or not
BackendResolved == pc \notin {"start", "init_backend"}

\* init_backend has set the backend handle self.bcknd
BackendChosen == "bcknd" \in DOMAIN obj

\* the constructor has returned or raised
BuildOver == pc \in {"done", "raised"}

\* C5: init_backend takes the backend name from the explicit argument when
\* it is not None, else from AXIPROP_BACKEND when it is set, else from the
\* first name of backend_strings_ordered that is registered; a source is read
\* only when the ones before it are absent, and the backend chosen is the
\* one registered under that name.
C5_BackendPriority ==
    BackendResolved =>
        /\ bknd_src = "argument" <=> ctor.backend.given
        /\ bknd_src = "environ" <=> (~ctor.backend.given /\ environ.given)
        /\ bknd_src = "ordering" <=> (~ctor.backend.given /\ ~environ.given)
        /\ BackendChosen =>
            /\ obj.bcknd \in AVAILABLE_BACKENDS
            /\ ctor.backend.given => obj.bcknd = ctor.backend.val
            /\ (~ctor.backend.given /\ environ.given) => obj.bcknd = environ.val
            /\ (~ctor.backend.given /\ ~environ.given) =>
                    \E i \in 1..Len(backend_strings_ordered) :
                        /\ backend_strings_ordered[i] = obj.bcknd
                        /\ \A j \in 1..(i - 1) :
                                backend_strings_ordered[j] \notin AVAILABLE_BACKENDS

\* C5 witness: the explicit argument has won over an environment variable
\* naming another registered backend, itself ahead of it in the ordering
C5_Witness ==
    /\ BackendChosen
    /\ ctor.backend.given
    /\ environ.given
    /\ environ.val # ctor.backend.val
    /\ environ.val \in AVAILABLE_BACKENDS
    /\ environ.val = backend_strings_ordered[1]
    /\ obj.bcknd = ctor.backend.val

\* the name the three sources resolve to is registered
ResolvedRegistered ==
    IF ctor.backend.given THEN ctor.backend.val \in AVAILABLE_BACKENDS
    ELSE IF environ.given THEN environ.val \in AVAILABLE_BACKENDS
    ELSE \E i \in 1..Len(backend_strings_ordered) :
            backend_strings_ordered[i] \in AVAILABLE_BACKENDS

\* C6: when the backend resolution yields no registered name, the
\* construction fails with 'Backend ... is not available' before any grid
\* work: no backend handle, no kz, no grid and no transform matrix is set.
C6_UnavailableBackendFails ==
    (BackendResolved /\ ~ResolvedRegistered) =>
        /\ pc = "raised"
        /\ exc = "Exception: Backend is not available"
        /\ ~BackendChosen
        /\ kz = <<>>
        /\ DOMAIN obj \subseteq {"mode"}
        /\ u_loc = <<>>

\* C7: PropagatorSymmetric constructed with Nr_new >= Nr is not truncated:
\* the construction succeeds with Nr_new = Nr, r_new = r, Rmax_new = Rmax.
C7_LargeNrNewIsNoTruncation ==
    (/\ cls = "PropagatorSymmetric"
     /\ BuildOver
     /\ BackendChosen
     /\ ctor.Nr_new.given
     /\ ctor.Nr_new.val >= ctor.r_axis[2])
        => /\ pc = "done"
           /\ obj.Nr_new = obj.Nr
           /\ obj.r_new = obj.r
           /\ obj.Rmax_new = obj.Rmax

\* the spacing of np.linspace(-L/2, L/2, n), n > 1
SpacingOf(axis) == <<axis[1], axis[2] - 1>>

\* C8: PropagatorFFT2 constructed with one of Nx, Ny equal to 1 and the
\* other larger completes; the degenerate axis is the single sample 0 and
\* its wavenumbers are built on the spacing of the other axis.
C8_DegenerateAxisHandled ==
    (/\ cls = "PropagatorFFT2"
     /\ BuildOver
     /\ BackendChosen)
        => /\ (ctor.x_axis[2] = 1 /\ ctor.y_axis[2] > 1)
                => /\ pc = "done"
                   /\ obj.x = <<<<0, 1>>>>
                   /\ obj.kx = FftFreqOf(1, SpacingOf(ctor.y_axis))
           /\ (ctor.y_axis[2] = 1 /\ ctor.x_axis[2] > 1)
                => /\ pc = "done"
                   /\ obj.y = <<<<0, 1>>>>
                   /\ obj.ky = FftFreqOf(1, SpacingOf(ctor.x_axis))

\* C9: the axis built from (k0, Lkz, Nkz), Nkz >= 1, has Nkz samples, is
\* symmetric about k0 and spans k0 - Lkz/2 to k0 + Lkz/2.
C9_KzAxisHasNkzSamples ==
    ("Nkz" \in DOMAIN obj /\ ctor.kz_axis.tuple) =>
        /\ obj.Nkz = ctor.kz_axis.Nkz
        /\ Len(kz) = ctor.kz_axis.Nkz
        /\ \A i \in 1..Len(kz) : kz[i] + kz[Len(kz) + 1 - i] = 2 * ctor.kz_axis.k0
        /\ 2 * kz[1] = 2 * ctor.kz_axis.k0 - ctor.kz_axis.Lkz
        /\ 2 * kz[Len(kz)] = 2 * ctor.kz_axis.k0 + ctor.kz_axis.Lkz

\* the distance a recorded session had covered after its first j calls
RECURSIVE Covered(_, _)
Covered(dzs, j) == IF j = 0 THEN 0 ELSE Covered(dzs, j - 1) + dzs[j]

\* the session's running distance is the sum of its distances, its cached
\* spectral field carries the phase of that sum, and a stepping call returns
\* the field advanced by that sum
SessionAccumulates ==
    stepping_set =>
        /\ z_propagation = SumSeq(sess_dz)
        /\ stepping_image = StepCall(kz, sess_u.data, SumSeq(sess_dz)).ht
        /\ SteppedOk => ret[1] = StepCall(kz, sess_u.data, SumSeq(sess_dz)).out

\* C10 as amended: initiate_stepping(u) sets z_propagation to 0; after
\* stepping(d_1)..stepping(d_n), z_propagation is d_1+...+d_n, the cached
\* spectral field of every slice carries the phase of that total, and the
\* n-th call returns u advanced by the total; stepping by a negative
\* distance returns to an earlier distance without a new initiate_stepping.
C10_SessionAccumulates ==
    /\ (op = "initiate_stepping" /\ err = "none") => z_propagation = 0
    /\ SessionAccumulates

\* C10 witness: two stepping calls of different non-zero distances
C10_Witness ==
    /\ SteppedOk
    /\ Len(sess_dz) = 2
    /\ sess_dz[1] # 0
    /\ sess_dz[2] # 0
    /\ sess_dz[1] # sess_dz[2]
    /\ z_propagation = sess_dz[1] + sess_dz[2]
    /\ z_propagation # sess_dz[2]

\* C10 as stated: the accumulation above, and a distance the session has
\* left is not reached again by stepping.
C10_NoReturnWithoutRestart ==
    /\ SessionAccumulates
    /\ stepping_set =>
            \A j \in 0..Len(sess_dz) :
                Covered(sess_dz, j) = z_propagation
                    => \A i \in j..Len(sess_dz) : Covered(sess_dz, i) = z_propagation

\* every non-zero spectral sample of the field u is propagating
FieldPropagating(axis, u) ==
    \A ikz \in 1..Len(axis) : \A g \in Grid :
        TST(u[ikz])[g] # CZero => axis[ikz] * axis[ikz] - kr2(g) >= 0

\* C11: for a field whose spectral samples are all propagating,
\* step(step(u, dz1), dz2) equals step(u, dz1 + dz2) for all signed dz1 and
\* dz2, and step(u, 0) returns u.
C11_StepAdditive ==
    [][/\ (/\ op = "step" /\ err = "none"
           /\ op' = "step" /\ err' = "none"
           /\ arg'.u.data = ret[1]
           /\ FieldPropagating(kz, arg.u.data))
              => ret'[1] = StepCall(kz, arg.u.data,
                                    arg.dz.val[1] + arg'.dz.val[1]).out
       /\ (/\ op' = "step" /\ err' = "none"
           /\ arg'.dz.val[1] = 0
           /\ FieldPropagating(kz, arg'.u.data))
              => ret'[1] = arg'.u.data]_vars

\* C11 witness: a second step, of a non-zero distance, on the field a first
\* step of a non-zero distance returned, on two all-propagating slices
C11_Witness ==
    /\ op = "step"
    /\ err = "none"
    /\ Nkz = 2
    /\ arg.u \notin Fields(Nkz)
    /\ arg.dz.val[1] # 0
    /\ FieldPropagating(kz, arg.u.data)
    /\ ret[1] # arg.u.data

\* the slice u advanced by the distance z at the phase rate of steps
AdvancedBySteps(u, k, z) == iTST(MulExp(TST(u), z, [g \in Grid |-> IkLoc(k, g)]))

\* C12: steps given a non-empty z_axis ignores dz and takes the forward
\* differences of z_axis, first entry z_axis[0], for its schedule: the stack
\* returned has len(z_axis) entries, and entry k is, slice by slice, the
\* input field advanced by the cumulative distance z_axis[k].
C12_ZAxisSchedule ==
    (/\ op = "steps"
     /\ arg.u.dtype = dtype
     /\ arg.z_axis.given
     /\ arg.z_axis.val # <<>>)
        => /\ err = "none"
           /\ ret_kind = "stack"
           /\ Len(ret) = Len(arg.z_axis.val)
           /\ \A k \in 1..Len(ret) : \A ikz \in 1..Nkz :
                ret[k][ikz] = AdvancedBySteps(arg.u.data[ikz], kz[ikz],
                                              arg.z_axis.val[k])

\* C12 witness: steps given two positions, the first not 0, and a dz that
\* is not their differences, has returned two different entries
C12_Witness ==
    /\ op = "steps"
    /\ ret_kind = "stack"
    /\ arg.z_axis.given
    /\ Len(arg.z_axis.val) = 2
    /\ arg.z_axis.val[1] # 0
    /\ arg.dz.given
    /\ arg.dz.val # DzOfZAxis(arg.z_axis.val)
    /\ Len(ret) = 2
    /\ ret[1] # ret[2]

\* C13: on the symmetric radial grid, for every mode order and every Nr,
\* r and kr come from the same roots: with alpha the first Nr positive roots
\* of the Bessel function of the mode order and alpha_last the (Nr+1)-th,
\* r[j] = Rmax*alpha[j]/alpha_last and kr[j] = alpha[j]/Rmax for every j,
\* and the alpha_np1 of the transform matrix is alpha_last.
C13_SameRootsForRAndKr ==
    (cls = "PropagatorSymmetric" /\ "kr" \in DOMAIN obj) =>
        LET Rmax == ctor.r_axis[1]
            Nr == ctor.r_axis[2]
            roots == jn_zeros(ctor.mode, Nr + 1)
            alpha_last == roots[Nr + 1]
        IN  /\ obj.alpha_np1 = alpha_last
            /\ Len(obj.r) = Nr
            /\ Len(obj.kr) = Nr
            /\ \A j \in 1..Nr :
                /\ REq(obj.r[j], <<Rmax * roots[j], alpha_last>>)
                /\ REq(obj.kr[j], <<roots[j], Rmax>>)

\* C14: step and steps calls made during a stepping session leave
\* stepping_image, phase_loc and z_propagation unchanged and overwrite the
\* buffers u_loc, u_ht, u_iht only, so every stepping call returns what it
\* returns in a session without them: the field advanced by the sum of the
\* session's distances.
C14_SessionIsolated ==
    /\ [][op' \in {"step", "steps"} => UNCHANGED <<config, session>>]_vars
    /\ []SessionAccumulates

\* C14 witness: the second stepping call of a session has returned after a
\* step or steps call on another field was made in the session (u_loc, which
\* stepping does not write, holds a slice of that field)
C14_Witness ==
    /\ SteppedOk
    /\ Len(sess_dz) = 2
    /\ sess_dz[2] # 0
    /\ u_loc # sess_u.data[Nkz]
    /\ ret[1] # sess_u.data

=============================================================================
